---- MODULE Spec2Model ----
(***************************************************************************)
(* A model of Server/server.py: the tool operations of the UnityMCP        *)
(* bridge, the payload send_ws_command builds for each of them, and the    *)
(* exchange (connect, send, receive, interpret, close) send_ws_command     *)
(* and ping_unity run against the Unity host over one WebSocket            *)
(* connection per call.                                                    *)
(*                                                                         *)
(* Representation of Python values:                                        *)
(*   - an optional float is <<>> (None) or <<n>>;                          *)
(*   - a dict {"x":..,"y":..,"z":..} is a record [x, y, z] of optional     *)
(*     floats, and an optional dict is <<>> (None) or <<dict>>;            *)
(*   - kwargs is a function from the keyword names passed to their values; *)
(*   - a value the call returns, and a JSON scalar of a reply, is a record *)
(*     [t, v]: t is "str", "num" or "none" and v is the text str() gives.  *)
(***************************************************************************)
EXTENDS Integers, Sequences, FiniteSets, TLC

VARIABLES
    url,        \* the module global UNITY_WS_URL
    pc,         \* pc[c]: where call c stands in its coroutine
    inv,        \* inv[c]: the tool invocation call c runs
    payload,    \* payload[c]: the local `payload` of send_ws_command, <<>> before it is built
    conn,       \* conn[c]: the connection the call's `async with` holds, 0 when none
    conns,      \* conns[k]: the state of connection k, both ends
    response,   \* response[c]: the local `response`, <<>> before recv returns
    exc,        \* exc[c]: the exception in flight in call c, <<>> when none
    ret,        \* ret[c]: the value a `return` statement evaluated, <<>> when none
    result,     \* result[c]: the value call c returned, <<>> before it returns
    hist        \* hist[c]: what call c did so far: connections opened, sends, recvs

vars == <<url, pc, inv, payload, conn, conns, response, exc, ret, result, hist>>

-----------------------------------------------------------------------------
(* Bounds of the model *)

\* Calls that may run concurrently under SpecConc.
NumCalls == 2
\* Connection identifiers available to the transport.
MaxConns == 2
\* Float arguments are drawn from 0..MaxFloat.
MaxFloat == 1

Calls == 1..NumCalls
ConnIds == 1..MaxConns
Floats == 0..MaxFloat

\* Optional floats: None or a float.
None == <<>>
OptFloats == {None} \cup {<<n>> : n \in Floats}

Names == {"Cube"}
\* Free-form string arguments; the empty string is a legal argument.
Strs == {"", "a"}

-----------------------------------------------------------------------------
(* The tool operations: the (method, kwargs) each hands to send_ws_command *)

Cmd(method, kwargs) == [method |-> method, kwargs |-> kwargs]

Vec(x, y, z) == [x |-> x, y |-> y, z |-> z]

NoKwargs == [k \in {} |-> None]

create_game_object(name, position_x, position_y, position_z) ==
    Cmd("CreateObject",
        ("name" :> name) @@
        ("position" :> <<Vec(<<position_x>>, <<position_y>>, <<position_z>>)>>))

delete_object(name) == Cmd("DeleteObject", "name" :> name)

add_component(object_name, component_name) ==
    Cmd("AddComponent", ("name" :> object_name) @@ ("string_param" :> component_name))

find_object(name) == Cmd("FindObject", "name" :> name)

\* server.py:81-83: a triple is built when its first component is given.
Triple(x, y, z) == IF x # None THEN <<Vec(x, y, z)>> ELSE None

modify_transform(name, pos_x, pos_y, pos_z, rot_x, rot_y, rot_z, scale_x, scale_y, scale_z) ==
    Cmd("ModifyTransform",
        ("name" :> name) @@
        ("position" :> Triple(pos_x, pos_y, pos_z)) @@
        ("rotation" :> Triple(rot_x, rot_y, rot_z)) @@
        ("scale" :> Triple(scale_x, scale_y, scale_z)))

get_hierarchy == Cmd("GetHierarchy", NoKwargs)

create_script(script_name, content) ==
    Cmd("CreateScript", ("name" :> script_name) @@ ("string_param" :> content))

create_material(material_name, r, g, b) ==
    Cmd("CreateMaterial",
        ("name" :> material_name) @@ ("position" :> <<Vec(<<r>>, <<g>>, <<b>>)>>))

list_assets(path) == Cmd("ListAssets", "string_param" :> path)

read_console == Cmd("ReadConsole", NoKwargs)

\* str(active).lower()
BoolText(active) == IF active THEN "true" ELSE "false"

set_play_mode(active) == Cmd("SetPlayMode", "string_param" :> BoolText(active))

execute_menu_item(menu_path) == Cmd("ExecuteMenuItem", "string_param" :> menu_path)

is_compiling == Cmd("IsCompiling", NoKwargs)

get_selection == Cmd("GetSelection", NoKwargs)

set_selection(name) == Cmd("SetSelection", "name" :> name)

inspect_object(name) == Cmd("InspectObject", "name" :> name)

get_screenshot == Cmd("GetScreenshot", NoKwargs)

set_component_property(object_name, component_name, property_name, value) ==
    Cmd("SetComponentProperty",
        ("name" :> object_name) @@ ("string_param" :> component_name) @@
        ("second_param" :> property_name) @@ ("value_param" :> value))

-----------------------------------------------------------------------------
(* Tool invocations: the inputs of the model *)

\* An invocation names the tool and gives its string, float and bool arguments.
Invocation(tool, s, f, b) == [tool |-> tool, s |-> s, f |-> f, b |-> b]

\* The (method, kwargs) an invocation of a send_ws_command tool passes on.
Dispatch(i) ==
    CASE i.tool = "create_game_object" ->
            create_game_object(i.s[1], i.f[1][1], i.f[2][1], i.f[3][1])
      [] i.tool = "delete_object" -> delete_object(i.s[1])
      [] i.tool = "add_component" -> add_component(i.s[1], i.s[2])
      [] i.tool = "find_object" -> find_object(i.s[1])
      [] i.tool = "modify_transform" ->
            modify_transform(i.s[1], i.f[1], i.f[2], i.f[3], i.f[4], i.f[5], i.f[6],
                             i.f[7], i.f[8], i.f[9])
      [] i.tool = "get_hierarchy" -> get_hierarchy
      [] i.tool = "create_script" -> create_script(i.s[1], i.s[2])
      [] i.tool = "create_material" ->
            create_material(i.s[1], i.f[1][1], i.f[2][1], i.f[3][1])
      [] i.tool = "list_assets" -> list_assets(i.s[1])
      [] i.tool = "read_console" -> read_console
      [] i.tool = "set_play_mode" -> set_play_mode(i.b[1])
      [] i.tool = "execute_menu_item" -> execute_menu_item(i.s[1])
      [] i.tool = "is_compiling" -> is_compiling
      [] i.tool = "get_selection" -> get_selection
      [] i.tool = "set_selection" -> set_selection(i.s[1])
      [] i.tool = "inspect_object" -> inspect_object(i.s[1])
      [] i.tool = "get_screenshot" -> get_screenshot
      [] i.tool = "set_component_property" ->
            set_component_property(i.s[1], i.s[2], i.s[3], i.s[4])

NoInvocation == Invocation("", <<>>, <<>>, <<>>)

NoArgTools == {"ping_unity", "get_hierarchy", "read_console", "is_compiling",
               "get_selection", "get_screenshot"}
NameTools == {"delete_object", "find_object", "set_selection", "inspect_object"}
NameStringTools == {"add_component", "create_script"}
StringTools == {"list_assets", "execute_menu_item"}
NameFloatsTools == {"create_game_object", "create_material"}

\* The nine optional components of modify_transform: those at the positions in
\* `given` are supplied with the value v, the others are left at None.
Components(given, v) == [j \in 1..9 |-> IF j \in given THEN <<v>> ELSE None]

Invocations ==
    {Invocation(t, <<>>, <<>>, <<>>) : t \in NoArgTools}
    \cup {Invocation(t, <<n>>, <<>>, <<>>) : t \in NameTools, n \in Names}
    \cup {Invocation(t, <<n, s>>, <<>>, <<>>) : t \in NameStringTools, n \in Names, s \in Strs}
    \cup {Invocation(t, <<s>>, <<>>, <<>>) : t \in StringTools, s \in Strs}
    \cup {Invocation(t, <<n>>, <<<<x>>, <<y>>, <<z>>>>, <<>>) :
            t \in NameFloatsTools, n \in Names, x \in Floats, y \in Floats, z \in Floats}
    \cup {Invocation("modify_transform", <<n>>, Components(g, v), <<>>) :
            n \in Names, g \in SUBSET (1..9), v \in Floats}
    \cup {Invocation("set_play_mode", <<>>, <<>>, <<a>>) : a \in BOOLEAN}
    \cup {Invocation("set_component_property", <<n, s1, s2, s3>>, <<>>, <<>>) :
            n \in Names, s1 \in Strs, s2 \in Strs, s3 \in Strs}

\* The inputs of the concurrent specification.
FewInvocations ==
    { Invocation("ping_unity", <<>>, <<>>, <<>>),
      Invocation("get_hierarchy", <<>>, <<>>, <<>>) }

-----------------------------------------------------------------------------
(* The payload of send_ws_command and its JSON text *)

\* kwargs.get(k, default)
Get(kwargs, k, default) == IF k \in DOMAIN kwargs THEN kwargs[k] ELSE default

\* Payload with param_string read from the keyword of param_name.
PayloadCopiedKeyword(method, kwargs) ==
    [ method       |-> method,
      param_name   |-> Get(kwargs, "name", ""),
      param_string |-> Get(kwargs, "name", ""),
      param_second |-> Get(kwargs, "second_param", ""),
      param_value  |-> Get(kwargs, "value_param", ""),
      param_pos    |-> Get(kwargs, "position", None),
      param_rot    |-> Get(kwargs, "rotation", None),
      param_scale  |-> Get(kwargs, "scale", None) ]

\* server.py:13-23
Payload(method, kwargs) ==
    [ method       |-> method,
      param_name   |-> Get(kwargs, "name", ""),
      param_string |-> Get(kwargs, "string_param", ""),
      param_second |-> Get(kwargs, "second_param", ""),
      param_value  |-> Get(kwargs, "value_param", ""),
      param_pos    |-> Get(kwargs, "position", None),
      param_rot    |-> Get(kwargs, "rotation", None),
      param_scale  |-> Get(kwargs, "scale", None) ]

\* json.dumps of a string (the model's strings need no escaping), of an
\* optional float, and of an optional {"x","y","z"} dict.
DumpsStr(s) == "\"" \o s \o "\""

DumpsFloat(x) == IF x = None THEN "null" ELSE ToString(x[1])

DumpsVec(v) ==
    IF v = None THEN "null"
    ELSE "{\"x\": " \o DumpsFloat(v[1].x) \o ", \"y\": " \o DumpsFloat(v[1].y)
         \o ", \"z\": " \o DumpsFloat(v[1].z) \o "}"

\* json.dumps(payload), server.py:27
Dumps(p) ==
    "{\"method\": " \o DumpsStr(p.method)
    \o ", \"param_name\": " \o DumpsStr(p.param_name)
    \o ", \"param_string\": " \o DumpsStr(p.param_string)
    \o ", \"param_second\": " \o DumpsStr(p.param_second)
    \o ", \"param_value\": " \o DumpsStr(p.param_value)
    \o ", \"param_pos\": " \o DumpsVec(p.param_pos)
    \o ", \"param_rot\": " \o DumpsVec(p.param_rot)
    \o ", \"param_scale\": " \o DumpsVec(p.param_scale) \o "}"

-----------------------------------------------------------------------------
(* Replies, return values and exceptions *)

\* Python/JSON scalars: [t, v] with v the text str() gives.
PyStr(s) == [t |-> "str", v |-> s]
PyNum(n) == [t |-> "num", v |-> ToString(n)]
PyNone == [t |-> "none", v |-> "None"]

\* A message of the host. kind "text" is text json.loads rejects; kinds "array"
\* and "null" are JSON documents that are no object; kind "object" is a JSON
\* object, each of whose keys status, result, message is missing (<<>>) or
\* holds a scalar (<<scalar>>).
Reply(kind, status, result_, message) ==
    [kind |-> kind, status |-> status, result |-> result_, message |-> message]

StatusValues == {<<>>, <<PyStr("success")>>, <<PyStr("error")>>, <<PyStr("ok")>>}
ResultValues == {<<>>, <<PyNone>>, <<PyStr("OK")>>, <<PyNum(MaxFloat)>>}
MessageValues == {<<>>, <<PyStr("Object not found")>>}

Replies ==
    {Reply(k, <<>>, <<>>, <<>>) : k \in {"text", "array", "null"}}
    \cup {Reply("object", st, r, m) :
            st \in StatusValues, r \in ResultValues, m \in MessageValues}

\* The replies of the concurrent specification.
FewReplies ==
    { Reply("object", <<>>, <<>>, <<>>),
      Reply("object", <<PyStr("error")>>, <<>>, <<>>),
      Reply("object", <<PyStr("success")>>, <<PyStr("OK")>>, <<>>) }

Exception(type, msg) == [type |-> type, msg |-> msg]

ConnectionRefusedError == Exception("ConnectionRefusedError", "[Errno 111] Connection refused")
\* Any other failure of websockets.connect (unreachable host, failed handshake).
ConnectOSError == Exception("OSError", "[Errno 113] No route to host")
ConnectionClosed == Exception("ConnectionClosedError", "no close frame received or sent")
JSONDecodeError == Exception("JSONDecodeError", "Expecting value: line 1 column 1 (char 0)")
AttributeError(typename) ==
    Exception("AttributeError", "'" \o typename \o "' object has no attribute 'get'")

ConnectErrors == {ConnectionRefusedError, ConnectOSError}

\* What a block of code ends with: a value it returns or an exception it raises.
Returns(v) == [ret |-> <<v>>, exc |-> <<>>]
Raises(e) == [ret |-> <<>>, exc |-> <<e>>]

TypeName(kind) == IF kind = "array" THEN "list" ELSE "NoneType"

\* data.get(key): the value under the key, None when the key is missing.
DataGet(field) == IF field = <<>> THEN PyNone ELSE field[1]

\* Interpret with `data.get("result") or "Success"`: a null result is replaced.
InterpretFalsyResult(data) ==
    IF data.status = <<PyStr("success")>>
    THEN IF data.result \in {<<>>, <<PyNone>>} THEN PyStr("Success") ELSE data.result[1]
    ELSE PyStr("Error: " \o DataGet(data.message).v)

\* server.py:32-35 on a parsed object `data`
Interpret(data) ==
    IF data.status = <<PyStr("success")>>
    THEN IF data.result = <<>> THEN PyStr("Success") ELSE data.result[1]
    ELSE PyStr("Error: " \o DataGet(data.message).v)

\* server.py:31-35: json.loads(response) and the interpretation of data
ParseResponse(resp) ==
    IF resp.kind = "text" THEN Raises(JSONDecodeError)
    ELSE IF resp.kind # "object" THEN Raises(AttributeError(TypeName(resp.kind)))
    ELSE Returns(Interpret(resp))

\* server.py:37-40, the except clauses of send_ws_command
Handle(e) ==
    IF e.type = "ConnectionRefusedError"
    THEN PyStr("Could not connect to Unity. Is the project open?")
    ELSE PyStr("WebSocket Error: " \o e.msg)

\* server.py:49-50, the bare except of ping_unity
HandlePing(e) == PyStr("Failed to connect to Unity.")

Caught(tool, e) == IF tool = "ping_unity" THEN HandlePing(e) ELSE Handle(e)

-----------------------------------------------------------------------------
(* Connections *)

FreeConn == [state |-> "free", owner |-> 0, dropped |-> FALSE,
             wire |-> <<>>, inbox |-> <<>>, got |-> <<>>]

\* A connection websockets.connect just established for call c.
NewConn(c) == [state |-> "open", owner |-> c, dropped |-> FALSE,
               wire |-> <<>>, inbox |-> <<>>, got |-> <<>>]

\* CloseConn for a connection opened without `async with`: it is left open.
CloseConnLeak(rec) == rec

\* The exit of `async with websockets.connect(...)`: the connection is closed.
CloseConn(rec) == [rec EXCEPT !.state = "closed"]

\* The connection websockets.connect returns: a new one, never one in use.
FreshConn == CHOOSE k \in ConnIds :
                /\ conns[k].state = "free"
                /\ \A j \in ConnIds : conns[j].state = "free" => k <= j

\* Socket for one module-level connection every call shares once it is open.
SharedSocket(c) ==
    IF \E k \in ConnIds : conns[k].state = "open"
    THEN CHOOSE k \in ConnIds :
            /\ conns[k].state = "open"
            /\ \A j \in ConnIds : conns[j].state = "open" => k <= j
    ELSE conn[c]

\* The `websocket` the body of the `async with` of call c talks to.
Socket(c) == conn[c]

NoHist == [opened |-> 0, sent |-> 0, recvd |-> 0, closed |-> 0]

-----------------------------------------------------------------------------
(* The state machine *)

UNITY_WS_URL == "ws://localhost:8080"

Init ==
    /\ url = UNITY_WS_URL
    /\ pc = [c \in Calls |-> "idle"]
    /\ inv = [c \in Calls |-> NoInvocation]
    /\ payload = [c \in Calls |-> <<>>]
    /\ conn = [c \in Calls |-> 0]
    /\ conns = [k \in ConnIds |-> FreeConn]
    /\ response = [c \in Calls |-> <<>>]
    /\ exc = [c \in Calls |-> <<>>]
    /\ ret = [c \in Calls |-> <<>>]
    /\ result = [c \in Calls |-> <<>>]
    /\ hist = [c \in Calls |-> NoHist]

\* A tool is called: ping_unity goes straight to connect; every other tool
\* enters send_ws_command, which builds the payload (13-23) and connects.
Invoke(c, inputs) ==
    /\ pc[c] = "idle"
    /\ \E i \in inputs :
        /\ inv' = [inv EXCEPT ![c] = i]
        /\ payload' = [payload EXCEPT ![c] =
                IF i.tool = "ping_unity" THEN <<>>
                ELSE <<Payload(Dispatch(i).method, Dispatch(i).kwargs)>>]
    /\ pc' = [pc EXCEPT ![c] = "connect"]
    /\ UNCHANGED <<url, conn, conns, response, exc, ret, result, hist>>

\* websockets.connect succeeds (26, 47). The body of ping_unity is its return.
ConnectOK(c) ==
    /\ pc[c] = "connect"
    /\ \E k \in ConnIds : conns[k].state = "free"
    /\ LET k == FreshConn IN
        /\ conns' = [conns EXCEPT ![k] = NewConn(c)]
        /\ conn' = [conn EXCEPT ![c] = k]
    /\ hist' = [hist EXCEPT ![c].opened = @ + 1]
    /\ IF inv[c].tool = "ping_unity"
       THEN /\ ret' = [ret EXCEPT ![c] = <<PyStr("Connected to Unity WebSocket Server!")>>]
            /\ pc' = [pc EXCEPT ![c] = "exit"]
       ELSE /\ ret' = ret
            /\ pc' = [pc EXCEPT ![c] = "send"]
    /\ UNCHANGED <<url, inv, payload, response, exc, result>>

\* websockets.connect raises: no connection exists, the except clause returns.
ConnectFails(c) ==
    /\ pc[c] = "connect"
    /\ \E e \in ConnectErrors :
        /\ exc' = [exc EXCEPT ![c] = <<e>>]
        /\ result' = [result EXCEPT ![c] = <<Caught(inv[c].tool, e)>>]
    /\ pc' = [pc EXCEPT ![c] = "done"]
    /\ UNCHANGED <<url, inv, payload, conn, conns, response, ret, hist>>

\* await websocket.send(json.dumps(payload)) (27)
Send(c) ==
    /\ pc[c] = "send"
    /\ LET k == Socket(c) IN
        IF conns[k].dropped
        THEN /\ exc' = [exc EXCEPT ![c] = <<ConnectionClosed>>]
             /\ pc' = [pc EXCEPT ![c] = "exit"]
             /\ UNCHANGED <<conns, hist>>
        ELSE /\ conns' = [conns EXCEPT ![k].wire =
                    Append(@, [from |-> c, text |-> Dumps(payload[c][1])])]
             /\ hist' = [hist EXCEPT ![c].sent = @ + 1]
             /\ pc' = [pc EXCEPT ![c] = "recv"]
             /\ exc' = exc
    /\ UNCHANGED <<url, inv, payload, conn, response, ret, result>>

\* response = await websocket.recv() and lines 31-35 (28-35): a message the host
\* sent is taken and interpreted; with none and the connection lost, recv raises;
\* with none and the connection up, recv waits.
Recv(c) ==
    /\ pc[c] = "recv"
    /\ LET k == Socket(c) IN
        IF conns[k].inbox # <<>>
        THEN LET r == Head(conns[k].inbox) IN
             /\ conns' = [conns EXCEPT ![k].inbox = Tail(@), ![k].got = Append(@, r)]
             /\ response' = [response EXCEPT ![c] = <<r>>]
             /\ hist' = [hist EXCEPT ![c].recvd = @ + 1]
             /\ ret' = [ret EXCEPT ![c] = ParseResponse(r).ret]
             /\ exc' = [exc EXCEPT ![c] = ParseResponse(r).exc]
        ELSE /\ conns[k].dropped
             /\ exc' = [exc EXCEPT ![c] = <<ConnectionClosed>>]
             /\ UNCHANGED <<conns, response, hist, ret>>
    /\ pc' = [pc EXCEPT ![c] = "exit"]
    /\ UNCHANGED <<url, inv, payload, conn, result>>

\* The `async with` block is left, by return or by exception: the connection is
\* closed, then the value is returned or the except clause returns its string.
Exit(c) ==
    /\ pc[c] = "exit"
    /\ conns' = [conns EXCEPT ![conn[c]] = CloseConn(@)]
    /\ hist' = [hist EXCEPT ![c].closed = @ + 1]
    /\ result' = [result EXCEPT ![c] =
            IF exc[c] # <<>> THEN <<Caught(inv[c].tool, exc[c][1])>> ELSE ret[c]]
    /\ pc' = [pc EXCEPT ![c] = "done"]
    /\ UNCHANGED <<url, inv, payload, conn, response, exc, ret>>

\* The caller has the result; the call's frame and its connection object are gone.
Return(c) ==
    /\ pc[c] = "done"
    /\ pc' = [pc EXCEPT ![c] = "idle"]
    /\ inv' = [inv EXCEPT ![c] = NoInvocation]
    /\ payload' = [payload EXCEPT ![c] = <<>>]
    /\ conns' = IF conn[c] = 0 THEN conns ELSE [conns EXCEPT ![conn[c]] = FreeConn]
    /\ conn' = [conn EXCEPT ![c] = 0]
    /\ response' = [response EXCEPT ![c] = <<>>]
    /\ exc' = [exc EXCEPT ![c] = <<>>]
    /\ ret' = [ret EXCEPT ![c] = <<>>]
    /\ result' = [result EXCEPT ![c] = <<>>]
    /\ hist' = [hist EXCEPT ![c] = NoHist]
    /\ url' = url

\* The host answers a command it received and has not answered yet.
HostReply(k, replies) ==
    /\ conns[k].state = "open"
    /\ ~conns[k].dropped
    /\ Len(conns[k].wire) > Len(conns[k].inbox) + Len(conns[k].got)
    /\ \E r \in replies : conns' = [conns EXCEPT ![k].inbox = Append(@, r)]
    /\ UNCHANGED <<url, pc, inv, payload, conn, response, exc, ret, result, hist>>

\* The host, or the network, drops an open connection.
HostDrop(k) ==
    /\ conns[k].state = "open"
    /\ ~conns[k].dropped
    /\ conns' = [conns EXCEPT ![k].dropped = TRUE]
    /\ UNCHANGED <<url, pc, inv, payload, conn, response, exc, ret, result, hist>>

\* One caller, calls in sequence, every tool and every reply.
Next ==
    \/ Invoke(1, Invocations)
    \/ ConnectOK(1)
    \/ ConnectFails(1)
    \/ Send(1)
    \/ Recv(1)
    \/ Exit(1)
    \/ Return(1)
    \/ \E k \in ConnIds : HostReply(k, Replies)
    \/ \E k \in ConnIds : HostDrop(k)

Spec == Init /\ [][Next]_vars

\* NumCalls callers whose calls interleave at every await.
NextConc ==
    \/ \E c \in Calls : Invoke(c, FewInvocations)
    \/ \E c \in Calls : ConnectOK(c)
    \/ \E c \in Calls : ConnectFails(c)
    \/ \E c \in Calls : Send(c)
    \/ \E c \in Calls : Recv(c)
    \/ \E c \in Calls : Exit(c)
    \/ \E c \in Calls : Return(c)
    \/ \E k \in ConnIds : HostReply(k, FewReplies)
    \/ \E k \in ConnIds : HostDrop(k)

SpecConc == Init /\ [][NextConc]_vars

\* The event loop runs every coroutine that can continue; nothing obliges the
\* host to answer or to drop the connection, and server.py sets no timeout, so
\* Recv stays disabled for as long as the host is silent.
Fairness ==
    \A c \in Calls :
        /\ WF_vars(ConnectOK(c) \/ ConnectFails(c))
        /\ WF_vars(Send(c))
        /\ WF_vars(Recv(c))
        /\ WF_vars(Exit(c))

FairSpec == Init /\ [][NextConc]_vars /\ Fairness

-----------------------------------------------------------------------------
(* Properties *)

Slots == {"param_name", "param_string", "param_second", "param_value",
          "param_pos", "param_rot", "param_scale"}
Keys == {"method"} \cup Slots
VecSlots == {"param_pos", "param_rot", "param_scale"}

\* The keyword of send_ws_command that fills a slot.
Keyword(slot) ==
    CASE slot = "param_name" -> "name"
      [] slot = "param_string" -> "string_param"
      [] slot = "param_second" -> "second_param"
      [] slot = "param_value" -> "value_param"
      [] slot = "param_pos" -> "position"
      [] slot = "param_rot" -> "rotation"
      [] slot = "param_scale" -> "scale"

\* The empty/absent marker of a slot.
Marker(slot) == IF slot \in VecSlots THEN None ELSE ""

\* sub occurs in s.
Contains(s, sub) ==
    \E j \in 1..(Len(s) - Len(sub) + 1) : SubSeq(s, j, j + Len(sub) - 1) = sub

Done(c) == pc[c] = "done"

\* The call ran send_ws_command (every tool but ping_unity does).
ViaSend(c) == inv[c].tool \notin {"", "ping_unity"}

\* The reply call c received is a JSON object.
GotObject(c) == response[c] # <<>> /\ response[c][1].kind = "object"

\* The error kind of the taxonomy a finished call ran into, "none" on success.
Cause(c) ==
    IF hist[c].opened = 0 THEN "HostUnavailable"
    ELSE IF response[c] = <<>>
         THEN IF exc[c] # <<>> THEN "TransportLost" ELSE "none"
    ELSE IF response[c][1].kind # "object" THEN "MalformedReply"
    ELSE IF response[c][1].status = <<PyStr("success")>> THEN "none"
    ELSE IF response[c][1].status = <<PyStr("error")>> THEN "HostRejected"
    ELSE "MalformedReply"

\* C1: every finished call has returned a value, and the value is a string.
C1_AlwaysReturnsString ==
    \A c \in Calls : Done(c) => result[c] # <<>> /\ result[c][1].t = "str"

\* C2: a call opens at most one connection, sends at most one command on it,
\* receives at most one reply and only after the send, never retries, and has
\* closed the connection it opened by the time it returns.
C2_OneExchangeThenClose ==
    \A c \in Calls :
        /\ hist[c].opened <= 1
        /\ hist[c].sent <= hist[c].opened
        /\ hist[c].recvd <= hist[c].sent
        /\ hist[c].closed <= hist[c].opened
        /\ Done(c) /\ hist[c].opened = 1 =>
                /\ conn[c] \in ConnIds
                /\ conns[conn[c]].state = "closed"
                /\ hist[c].closed = 1

\* A call returned after a whole exchange: connection opened, command sent,
\* reply received, connection closed.
C2_Witness ==
    \E c \in Calls :
        /\ Done(c)
        /\ hist[c] = [opened |-> 1, sent |-> 1, recvd |-> 1, closed |-> 1]
        /\ conns[conn[c]].state = "closed"

\* C3: every call that started returns, whatever the host does or fails to do.
C3_EveryCallReturns ==
    \A c \in Calls : (pc[c] = "connect") ~> Done(c)

\* C4: two finished calls that failed for different causes of the taxonomy
\* returned different outcomes.
C4_DistinctOutcomes ==
    \A c1, c2 \in Calls :
        /\ Done(c1) /\ Done(c2) /\ ViaSend(c1) /\ ViaSend(c2)
        /\ Cause(c1) # "none" /\ Cause(c2) # "none"
        /\ Cause(c1) # Cause(c2)
        => result[c1] # result[c2]

\* C5: a reply object whose status is missing or is neither "success" nor "error"
\* is not reported the way a host rejection carrying the same message is, nor
\* the way a success is.
C5_UnknownStatusIsMalformed ==
    \A c \in Calls :
        /\ Done(c) /\ GotObject(c)
        /\ response[c][1].status \notin {<<PyStr("success")>>, <<PyStr("error")>>}
        => /\ result[c] # <<Interpret([response[c][1] EXCEPT !.status = <<PyStr("error")>>])>>
           /\ result[c] # <<Interpret([response[c][1] EXCEPT !.status = <<PyStr("success")>>])>>

\* C6: on a "success" reply the call returns the result field when the reply
\* has one and "Success" when it has none; on an "error" reply that carries a
\* message the call returns a string that contains the message.
C6_SuccessAndErrorReplies ==
    \A c \in Calls :
        Done(c) /\ GotObject(c) =>
            LET data == response[c][1] IN
            /\ data.status = <<PyStr("success")>> /\ data.result # <<>>
                    => result[c] = data.result
            /\ data.status = <<PyStr("success")>> /\ data.result = <<>>
                    => result[c] = <<PyStr("Success")>>
            /\ data.status = <<PyStr("error")>> /\ data.message # <<>>
                    => /\ result[c] # <<>>
                       /\ result[c][1].t = "str"
                       /\ Contains(result[c][1].v, data.message[1].v)

\* A call returned on an "error" reply that carries a message.
C6_Witness ==
    \E c \in Calls :
        /\ Done(c) /\ GotObject(c)
        /\ response[c][1].status = <<PyStr("error")>>
        /\ response[c][1].message = <<PyStr("Object not found")>>
        /\ result[c] = <<PyStr("Error: Object not found")>>

\* The components of the triple of modify_transform that fills a slot.
TripleArgs(i, slot) ==
    CASE slot = "param_pos" -> <<i.f[1], i.f[2], i.f[3]>>
      [] slot = "param_rot" -> <<i.f[4], i.f[5], i.f[6]>>
      [] slot = "param_scale" -> <<i.f[7], i.f[8], i.f[9]>>

\* C7: a message modify_transform has sent carries, for a triple of which some
\* but not all components were supplied, no Vector3 at all (and so none with a
\* null component).
C7_NoPartialTripleSent ==
    \A c \in Calls :
        inv[c].tool = "modify_transform" /\ hist[c].sent = 1 =>
            \A slot \in VecSlots :
                LET given == {j \in 1..3 : TripleArgs(inv[c], slot)[j] # None} IN
                given \notin {{}, {1, 2, 3}} => payload[c][1][slot] = None

\* C8: every connection carries at most one command and at most one reply, all
\* of its owner; running calls hold different connections; the reply a call
\* interprets came over its own connection and its result is read off that
\* reply; the host address never changes.
C8_OneExchangePerConnection ==
    /\ url = UNITY_WS_URL
    /\ \A k \in ConnIds :
        /\ Len(conns[k].wire) <= 1
        /\ Len(conns[k].inbox) + Len(conns[k].got) <= 1
        /\ \A j \in 1..Len(conns[k].wire) : conns[k].wire[j].from = conns[k].owner
        /\ conns[k].state # "free" => conn[conns[k].owner] = k
    /\ \A c1, c2 \in Calls : c1 # c2 /\ conn[c1] # 0 => conn[c1] # conn[c2]
    /\ \A c \in Calls :
        /\ conn[c] # 0 => conns[conn[c]].owner = c
        /\ response[c] # <<>> => conn[c] # 0 /\ conns[conn[c]].got = response[c]
        /\ Done(c) /\ response[c] # <<>> =>
                \/ result[c] = ParseResponse(conns[conn[c]].got[1]).ret /\ result[c] # <<>>
                \/ /\ ParseResponse(conns[conn[c]].got[1]).exc # <<>>
                   /\ result[c] = <<Handle(ParseResponse(conns[conn[c]].got[1]).exc[1])>>

\* Two calls have finished, each on the reply of its own connection, and the
\* two replies differ.
C8_Witness ==
    \E c1, c2 \in Calls :
        /\ c1 # c2 /\ Done(c1) /\ Done(c2)
        /\ response[c1] # <<>> /\ response[c2] # <<>>
        /\ response[c1] # response[c2]
        /\ result[c1] # result[c2]

\* C9: the payload of every call has exactly the eight keys, every slot whose
\* keyword the tool does not pass holds the slot's empty/absent marker, and the
\* message on the wire is the JSON text of that payload.
C9_FixedSchema ==
    \A c \in Calls :
        payload[c] # <<>> =>
            /\ DOMAIN payload[c][1] = Keys
            /\ payload[c][1].method = Dispatch(inv[c]).method
            /\ \A slot \in Slots :
                    Keyword(slot) \notin DOMAIN Dispatch(inv[c]).kwargs
                    => payload[c][1][slot] = Marker(slot)
            /\ hist[c].sent = 1 =>
                    conns[conn[c]].wire = <<[from |-> c, text |-> Dumps(payload[c][1])]>>

\* set_component_property, which uses every string slot and no Vector3 slot,
\* has sent its message.
C9_Witness ==
    \E c \in Calls :
        /\ inv[c].tool = "set_component_property"
        /\ hist[c].sent = 1
        /\ payload[c][1].param_pos = None
        /\ payload[c][1].param_value = "a"

\* kwargs without the keyword k.
Without(kwargs, k) == [j \in DOMAIN kwargs \ {k} |-> kwargs[j]]

\* The command populates the slot: the keyword is passed and is not None.
Populated(cmd, slot) ==
    /\ Keyword(slot) \in DOMAIN cmd.kwargs
    /\ slot \in VecSlots => cmd.kwargs[Keyword(slot)] # None

\* C10: the message of a command that populates a slot differs from the message
\* of the same command with that slot absent.
C10_AbsentDiffersFromPopulated ==
    \A c \in Calls :
        ViaSend(c) /\ hist[c].sent = 1 =>
            LET cmd == Dispatch(inv[c]) IN
            \A slot \in Slots :
                Populated(cmd, slot) =>
                    Dumps(Payload(cmd.method, cmd.kwargs))
                        # Dumps(Payload(cmd.method, Without(cmd.kwargs, Keyword(slot))))

====
